---- MODULE Spec2Model ----
(***************************************************************************)
(* markdown_to_text: strip_markdown (src/src/lib.rs).                      *)
(*                                                                         *)
(* strip_markdown pulls events from a pulldown_cmark parser one at a time  *)
(* and, for each, updates a stack of open tags and appends to a String     *)
(* buffer; when the parser is exhausted it returns the trimmed buffer.     *)
(* The parser is an external crate: here it is the environment, which at   *)
(* every step either yields one more event (any event, well nested or not) *)
(* or ends the stream.                                                     *)
(*                                                                         *)
(* Strings are sequences of characters; a character is a one-element       *)
(* TLA+ string, except the bullet U+2022, which is written BULLET.         *)
(***************************************************************************)
EXTENDS Naturals, Sequences, FiniteSets

\* ------------------------------------------------------------------ bounds

\* The longest event stream the parser yields.
MaxEvents == 4

\* The longest event stream the parser yields for a document of paragraphs.
MaxPlainEvents == 6

\* The longest event stream the parser yields to each of two calls that run
\* at the same time.
MaxConcurrentEvents == 2

\* ------------------------------------------------------------- characters

SP == " "
NL == "\n"
BULLET == "U+2022"

\* char::is_whitespace, on the characters of the model.
is_whitespace(c) == c \in {SP, NL}

\* --------------------------------------------------------------- the tags

\* pulldown_cmark::Tag. The payloads the code never reads (heading level,
\* code block kind, table alignments, link type and destination) are left
\* out; List keeps whether it is ordered (Option<u64> is Some), Link and
\* Image keep their title.
Titles == {<<>>, <<"t">>}

Paragraph == [name |-> "Paragraph"]
Heading == [name |-> "Heading"]
BlockQuote == [name |-> "BlockQuote"]
CodeBlock == [name |-> "CodeBlock"]
Item == [name |-> "Item"]
Table == [name |-> "Table"]
TableHead == [name |-> "TableHead"]
TableRow == [name |-> "TableRow"]
Emphasis == [name |-> "Emphasis"]
Strong == [name |-> "Strong"]
Strikethrough == [name |-> "Strikethrough"]
List(ordered) == [name |-> "List", ordered |-> ordered]
Link(title) == [name |-> "Link", title |-> title]
Image(title) == [name |-> "Image", title |-> title]

Tags ==
    {Paragraph, Heading, BlockQuote, CodeBlock, Item, Table, TableHead,
     TableRow, Emphasis, Strong, Strikethrough}
    \cup {List(o) : o \in BOOLEAN}
    \cup {Link(t) : t \in Titles}
    \cup {Image(t) : t \in Titles}

\* The content of Text and Code events.
Contents == {<<"a">>, <<SP, "b">>}
CodeContents == {<<"c">>}

\* pulldown_cmark::Event, as the match of strip_markdown sees it.
Start(tag) == [kind |-> "Start", tag |-> tag]
End(tag) == [kind |-> "End", tag |-> tag]
Text(content) == [kind |-> "Text", content |-> content]
Code(content) == [kind |-> "Code", content |-> content]
SoftBreak == [kind |-> "SoftBreak"]
Other == [kind |-> "Other"]

\* ------------------------------------------------------------ the helpers

\* A start rule whose bullet is followed by two spaces.
start_tag_wide_bullet(tag, buf) ==
    IF tag.name \in {"Link", "Image"} THEN buf \o tag.title
    ELSE IF tag.name = "Item" THEN buf \o <<BULLET, SP, SP>>
    ELSE buf

\* A start rule whose bullet has no space after it.
start_tag_bare_bullet(tag, buf) ==
    IF tag.name \in {"Link", "Image"} THEN buf \o tag.title
    ELSE IF tag.name = "Item" THEN buf \o <<BULLET>>
    ELSE buf

\* A start rule that keeps the title of links only.
start_tag_image_title_dropped(tag, buf) ==
    IF tag.name = "Link" THEN buf \o tag.title
    ELSE IF tag.name = "Item" THEN buf \o <<BULLET, SP>>
    ELSE buf

start_tag(tag, buf) ==
    IF tag.name \in {"Link", "Image"} THEN buf \o tag.title
    ELSE IF tag.name = "Item" THEN buf \o <<BULLET, SP>>
    ELSE buf

\* An end rule that drops a space at the buffer's end before it adds its
\* separator.
end_tag_tidying(tag, buf) ==
    LET tidy == IF buf # <<>> /\ buf[Len(buf)] = SP
                    THEN SubSeq(buf, 1, Len(buf) - 1)
                ELSE buf
    IN  IF tag.name \in {"Paragraph", "Table", "Heading", "List"}
            THEN tidy \o <<NL, NL>>
        ELSE IF tag.name \in {"CodeBlock", "TableHead", "TableRow", "Item"}
            THEN tidy \o <<NL>>
        ELSE buf

\* An end rule that sets a block quote off with a blank line.
end_tag_block_quote_blank_line(tag, buf) ==
    IF tag.name \in {"Paragraph", "Table", "Heading", "List", "BlockQuote"}
        THEN buf \o <<NL, NL>>
    ELSE IF tag.name \in {"CodeBlock", "TableHead", "TableRow", "Item"}
        THEN buf \o <<NL>>
    ELSE buf

\* An end rule without the CodeBlock case.
end_tag_code_block_forgotten(tag, buf) ==
    IF tag.name \in {"Paragraph", "Table", "Heading", "List"}
        THEN buf \o <<NL, NL>>
    ELSE IF tag.name \in {"TableHead", "TableRow", "Item"}
        THEN buf \o <<NL>>
    ELSE buf

\* An end rule that closes a paragraph with a line break, not a blank line.
end_tag_paragraph_one_newline(tag, buf) ==
    IF tag.name \in {"Table", "Heading", "List"}
        THEN buf \o <<NL, NL>>
    ELSE IF tag.name \in {"Paragraph", "CodeBlock", "TableHead", "TableRow",
                          "Item"}
        THEN buf \o <<NL>>
    ELSE buf

end_tag(tag, buf) ==
    IF tag.name \in {"Paragraph", "Table", "Heading", "List"}
        THEN buf \o <<NL, NL>>
    ELSE IF tag.name \in {"CodeBlock", "TableHead", "TableRow", "Item"}
        THEN buf \o <<NL>>
    ELSE buf

is_strikethrough(tag) == tag.name = "Strikethrough"

\* A looser check: only the innermost open tag is looked at.
any_strikethrough_top_only(stack) ==
    stack # <<>> /\ is_strikethrough(stack[Len(stack)])

\* tags_stack.iter().any(is_strikethrough)
any_strikethrough(stack) ==
    \E i \in 1..Len(stack) : is_strikethrough(stack[i])

\* Vec::insert(0, tag) in the place of Vec::push.
push_front(stack, tag) == <<tag>> \o stack

\* Vec::push
push(stack, tag) == Append(stack, tag)

\* Vec::last in the place of Vec::pop: nothing is removed.
pop_peek_only(stack) == stack

\* Vec::pop, its Option result dropped: an empty vector stays empty.
pop(stack) ==
    IF stack = <<>> THEN <<>> ELSE SubSeq(stack, 1, Len(stack) - 1)

RECURSIVE trim_start(_)
trim_start(s) ==
    IF s # <<>> /\ is_whitespace(Head(s)) THEN trim_start(Tail(s)) ELSE s

RECURSIVE trim_end(_)
trim_end(s) ==
    IF s # <<>> /\ is_whitespace(s[Len(s)])
        THEN trim_end(SubSeq(s, 1, Len(s) - 1))
    ELSE s

\* str::trim_end in the place of str::trim.
trim_end_only(s) == trim_end(s)

\* str::trim
trim(s) == trim_end(trim_start(s))

\* The body of the for loop, on the locals of one call: the arm of the match
\* that `event` selects.
handle(st, event) ==
    IF event.kind = "Start"
        THEN [tags_stack |-> push(st.tags_stack, event.tag),
              buffer |-> start_tag(event.tag, st.buffer)]
    ELSE IF event.kind = "End"
        THEN [tags_stack |-> pop(st.tags_stack),
              buffer |-> end_tag(event.tag, st.buffer)]
    ELSE IF event.kind = "Text"
        THEN [tags_stack |-> st.tags_stack,
              buffer |-> IF ~any_strikethrough(st.tags_stack)
                            THEN st.buffer \o event.content
                         ELSE st.buffer]
    ELSE IF event.kind = "Code"
        THEN [tags_stack |-> st.tags_stack,
              buffer |-> st.buffer \o event.content]
    ELSE IF event.kind = "SoftBreak"
        THEN [tags_stack |-> st.tags_stack, buffer |-> Append(st.buffer, SP)]
    ELSE st

\* The locals of a call after the loop has run over the events h, from an
\* empty stack and an empty buffer.
RECURSIVE pass(_)
pass(h) ==
    IF h = <<>> THEN [tags_stack |-> <<>>, buffer |-> <<>>]
    ELSE handle(pass(SubSeq(h, 1, Len(h) - 1)), h[Len(h)])

\* strip_markdown, on the events the parser yields for its argument.
strip_markdown(h) == trim(pass(h).buffer)

\* -------------------------------------------------------------- the state

VARIABLES
    tagset,      \* the tags the document uses
    limit,       \* the most events the parser yields for it
    consumed,    \* the events the parser has yielded so far, in order
    tags_stack,  \* strip_markdown's tags_stack
    buffer,      \* strip_markdown's buffer
    pc,          \* "loop" in the for loop, "done" once the function returned
    result,      \* the returned String, once pc = "done"
    lens,        \* history: lens[i] is the buffer's length before event i,
                 \* lens[i + 1] its length after it
    call2        \* a second call of strip_markdown on another thread: its
                 \* consumed, tags_stack, buffer, pc and result

vars ==
    <<tagset, limit, consumed, tags_stack, buffer, pc, result, lens, call2>>

\* No second call.
NoCall == [pc |-> "none"]

\* The locals of a call before its loop.
FreshCall ==
    [consumed |-> <<>>, tags_stack |-> <<>>, buffer |-> <<>>, pc |-> "loop",
     result |-> <<>>]

\* The tags of a document of lists.
ListTags == {List(TRUE), List(FALSE), Item}

\* A document uses Strikethrough and one other tag, or is a document of
\* lists.
TagSets == {{t, Strikethrough} : t \in Tags} \cup {ListTags}

\* A document of paragraphs uses Paragraph alone.
PlainTags == {Paragraph}

\* let mut tags_stack = Vec::new(); let mut buffer = String::new();
Fresh ==
    /\ consumed = <<>>
    /\ tags_stack = <<>>
    /\ buffer = <<>>
    /\ pc = "loop"
    /\ result = <<>>
    /\ lens = <<0>>
    /\ call2 = NoCall

\* Two calls, each on a document that uses the same one tag.
ConcurrentTagSets == {{Item}, {Strikethrough}}

ConcurrentInit ==
    /\ tagset \in ConcurrentTagSets
    /\ limit = MaxConcurrentEvents
    /\ consumed = <<>>
    /\ tags_stack = <<>>
    /\ buffer = <<>>
    /\ pc = "loop"
    /\ result = <<>>
    /\ lens = <<0>>
    /\ call2 = FreshCall

\* A document that uses one tag.
SingleTagSets == {{t} : t \in Tags}

Init ==
    /\ tagset \in TagSets
    /\ limit = MaxEvents
    /\ Fresh

PlainInit ==
    /\ tagset = PlainTags
    /\ limit = MaxPlainEvents
    /\ Fresh

SingleTagInit ==
    /\ tagset \in SingleTagSets
    /\ limit = MaxEvents
    /\ Fresh

\* The for loop asks the parser for one more event, and the parser has one.
Pull ==
    /\ pc = "loop"
    /\ Len(consumed) < limit

\* The history of the pass, extended once the arm of the match has run on
\* `event`.
Record(event) ==
    /\ consumed' = Append(consumed, event)
    /\ lens' = Append(lens, Len(buffer'))
    /\ UNCHANGED <<tagset, limit, pc, result, call2>>

\* A pass that applies the start rule only outside strikethrough.
StartEventFiltered(tag) ==
    /\ Pull
    /\ buffer' = IF ~any_strikethrough(tags_stack)
                    THEN start_tag(tag, buffer)
                 ELSE buffer
    /\ tags_stack' = push(tags_stack, tag)
    /\ Record(Start(tag))

\* Event::Start(tag)
StartEvent(tag) ==
    /\ Pull
    /\ buffer' = start_tag(tag, buffer)
    /\ tags_stack' = push(tags_stack, tag)
    /\ Record(Start(tag))

\* A pass that pops only the tag that the End event names.
EndEventMatchingOnly(tag) ==
    /\ Pull
    /\ buffer' = end_tag(tag, buffer)
    /\ tags_stack' = IF tags_stack # <<>> /\ tags_stack[Len(tags_stack)] = tag
                        THEN pop(tags_stack)
                     ELSE tags_stack
    /\ Record(End(tag))

\* A pass that applies the end rule only when a tag was popped.
EndEventOnOpenTag(tag) ==
    /\ Pull
    /\ buffer' = IF tags_stack = <<>> THEN buffer ELSE end_tag(tag, buffer)
    /\ tags_stack' = pop(tags_stack)
    /\ Record(End(tag))

\* Event::End(tag)
EndEvent(tag) ==
    /\ Pull
    /\ buffer' = end_tag(tag, buffer)
    /\ tags_stack' = pop(tags_stack)
    /\ Record(End(tag))

\* Event::Text(content)
TextEvent(content) ==
    /\ Pull
    /\ buffer' = IF ~any_strikethrough(tags_stack)
                    THEN buffer \o content
                 ELSE buffer
    /\ UNCHANGED tags_stack
    /\ Record(Text(content))

\* A pass that filters code the way it filters text.
CodeEventFiltered(content) ==
    /\ Pull
    /\ buffer' = IF ~any_strikethrough(tags_stack)
                    THEN buffer \o content
                 ELSE buffer
    /\ UNCHANGED tags_stack
    /\ Record(Code(content))

\* Event::Code(content)
CodeEvent(content) ==
    /\ Pull
    /\ buffer' = buffer \o content
    /\ UNCHANGED tags_stack
    /\ Record(Code(content))

\* A pass that filters the soft break the way it filters text.
SoftBreakEventFiltered ==
    /\ Pull
    /\ buffer' = IF ~any_strikethrough(tags_stack)
                    THEN Append(buffer, SP)
                 ELSE buffer
    /\ UNCHANGED tags_stack
    /\ Record(SoftBreak)

\* Event::SoftBreak
SoftBreakEvent ==
    /\ Pull
    /\ buffer' = Append(buffer, SP)
    /\ UNCHANGED tags_stack
    /\ Record(SoftBreak)

\* A pass that renders a hard break, one of the other events, as a newline.
OtherEventHardBreak ==
    /\ Pull
    /\ buffer' = Append(buffer, NL)
    /\ UNCHANGED tags_stack
    /\ Record(Other)

\* Every other event: the `_ => ()` arm.
OtherEvent ==
    /\ Pull
    /\ UNCHANGED <<buffer, tags_stack>>
    /\ Record(Other)

\* The parser is exhausted: buffer.trim().to_string() is returned.
Finish ==
    /\ pc = "loop"
    /\ pc' = "done"
    /\ result' = trim(buffer)
    /\ UNCHANGED <<tagset, limit, consumed, tags_stack, buffer, lens, call2>>

Next ==
    \/ \E tag \in tagset : StartEvent(tag)
    \/ \E tag \in tagset : EndEvent(tag)
    \/ \E content \in Contents : TextEvent(content)
    \/ \E content \in CodeContents : CodeEvent(content)
    \/ SoftBreakEvent
    \/ OtherEvent
    \/ Finish

Spec == Init /\ [][Next]_vars

\* The events the parser can yield for a document of the tags `tags`.
Events(tags) ==
    {Start(t) : t \in tags} \cup {End(t) : t \in tags}
    \cup {Text(c) : c \in Contents} \cup {Code(c) : c \in CodeContents}
    \cup {SoftBreak, Other}

\* The first call's locals.
Call1Locals == <<consumed, tags_stack, buffer, pc, result, lens>>

\* A second call whose buffer is one static buffer, shared with the first.
Call2EventSharedBuffer(event) ==
    /\ call2.pc = "loop"
    /\ Len(call2.consumed) < limit
    /\ LET st == handle([tags_stack |-> call2.tags_stack,
                         buffer |-> buffer], event)
       IN  /\ call2' = [call2 EXCEPT !.consumed = Append(@, event),
                                     !.tags_stack = st.tags_stack,
                                     !.buffer = st.buffer]
           /\ buffer' = st.buffer
    /\ UNCHANGED <<tagset, limit, consumed, tags_stack, pc, result, lens>>

\* One iteration of the second call's loop, on its own locals.
Call2Event(event) ==
    /\ call2.pc = "loop"
    /\ Len(call2.consumed) < limit
    /\ LET st == handle([tags_stack |-> call2.tags_stack,
                         buffer |-> call2.buffer], event)
       IN  call2' = [call2 EXCEPT !.consumed = Append(@, event),
                                  !.tags_stack = st.tags_stack,
                                  !.buffer = st.buffer]
    /\ UNCHANGED <<tagset, limit>>
    /\ UNCHANGED Call1Locals

\* The second call returns.
Call2Finish ==
    /\ call2.pc = "loop"
    /\ call2' = [call2 EXCEPT !.pc = "done", !.result = trim(call2.buffer)]
    /\ UNCHANGED <<tagset, limit>>
    /\ UNCHANGED Call1Locals

ConcurrentNext ==
    \/ Next
    \/ \E event \in Events(tagset) : Call2Event(event)
    \/ Call2Finish

\* Two calls on independent inputs, their steps interleaved in any order.
ConcurrentSpec == ConcurrentInit /\ [][ConcurrentNext]_vars

\* The pass over documents of one tag, run to its end: the loop is
\* synchronous and the parser's stream is finite, so an iteration that can
\* run does run, and the function returns when the stream ends.
FairSpec == SingleTagInit /\ [][Next]_vars /\ WF_vars(Next)

\* The same pass over documents of paragraphs, which may be longer.
PlainSpec == PlainInit /\ [][Next]_vars

\* ------------------------------------------------- the event stream's shape

\* The Start and End events among h[i..j].
StartsIn(h, i, j) == Cardinality({k \in i..j : h[k].kind = "Start"})
EndsIn(h, i, j) == Cardinality({k \in i..j : h[k].kind = "End"})

\* The End at j closes the Start at i: the events between them are balanced.
Matches(h, i, j) ==
    /\ i < j
    /\ h[i].kind = "Start"
    /\ h[j].kind = "End"
    /\ StartsIn(h, i, j) = EndsIn(h, i, j)
    /\ \A k \in i..(j - 1) : StartsIn(h, i, k) > EndsIn(h, i, k)

\* The Event Source's guarantee, on a prefix of a document: every End closes
\* a Start of the same tag, in LIFO order.
WellFormed(h) ==
    \A j \in 1..Len(h) :
        h[j].kind = "End" =>
            \E i \in 1..(j - 1) : Matches(h, i, j) /\ h[i].tag = h[j].tag

\* The Start events of h that no later End of h closes.
OpenIdx(h) ==
    {i \in 1..Len(h) :
        /\ h[i].kind = "Start"
        /\ \A k \in i..Len(h) : StartsIn(h, i, k) > EndsIn(h, i, k)}

\* A Strikethrough span is open at the end of h.
StruckIn(h) == \E i \in OpenIdx(h) : h[i].tag = Strikethrough

\* The innermost span open at the end of h is a CodeBlock.
InCodeBlock(h) ==
    /\ OpenIdx(h) # {}
    /\ \E i \in OpenIdx(h) :
        /\ \A k \in OpenIdx(h) : k <= i
        /\ h[i].tag = CodeBlock

\* A document of paragraphs, whole: Paragraph spans, not nested, that hold
\* Text events and, between two Text events, SoftBreak events.
PlainDocument(h) ==
    /\ h # <<>>
    /\ WellFormed(h)
    /\ OpenIdx(h) = {}
    /\ \A i \in 1..Len(h) :
        /\ h[i] \in {Start(Paragraph), End(Paragraph), SoftBreak}
                \cup {Text(s) : s \in Contents}
        /\ h[i].kind = "Start" => StartsIn(h, 1, i) = EndsIn(h, 1, i) + 1
        /\ h[i].kind \in {"Text", "SoftBreak"} =>
                StartsIn(h, 1, i) = EndsIn(h, 1, i) + 1
        /\ h[i].kind = "SoftBreak" =>
                h[i - 1].kind = "Text" /\ h[i + 1].kind = "Text"

\* The text of a document of paragraphs: the words of each paragraph, `br`
\* for each line break inside a paragraph, a blank line after each paragraph.
RECURSIVE PlainText(_, _)
PlainText(h, br) ==
    IF h = <<>> THEN <<>>
    ELSE LET e == Head(h)
             piece == IF e.kind = "Text" THEN e.content
                      ELSE IF e.kind = "SoftBreak" THEN <<br>>
                      ELSE IF e.kind = "End" THEN <<NL, NL>>
                      ELSE <<>>
         IN  piece \o PlainText(Tail(h), br)

\* The Markdown source of a document of paragraphs, as tests::paragraphs and
\* tests::block_quote write it: a line break inside a paragraph is a newline.
SourceText(h) == PlainText(h, NL)

\* s without its leading and trailing whitespace: from its first character
\* that is not whitespace to its last.
Stripped(s) ==
    LET solid == {i \in 1..Len(s) : ~is_whitespace(s[i])}
    IN  IF solid = {} THEN <<>>
        ELSE SubSeq(s,
                    CHOOSE i \in solid : \A k \in solid : i <= k,
                    CHOOSE i \in solid : \A k \in solid : k <= i)

\* The End at j closes no Start: it is handled with nothing on the stack.
Underflows(h, j) ==
    /\ h[j].kind = "End"
    /\ ~\E i \in 1..(j - 1) : Matches(h, i, j)

\* The end rule of a tag: what its End event is to append.
EndRule(tag) ==
    IF tag \in {Paragraph, Table, Heading, List(TRUE), List(FALSE)}
        THEN <<NL, NL>>
    ELSE IF tag \in {CodeBlock, TableHead, TableRow, Item}
        THEN <<NL>>
    ELSE <<>>

\* The i-th of the spans open at the end of h, outermost first.
OpenTag(h, i) ==
    LET k == CHOOSE k \in OpenIdx(h) :
                Cardinality({m \in OpenIdx(h) : m <= k}) = i
    IN  h[k].tag

\* The start rule of a tag: what its Start event is to append.
StartRule(tag) ==
    IF tag \in {Link(t) : t \in Titles} \cup {Image(t) : t \in Titles}
        THEN tag.title
    ELSE IF tag = Item THEN <<BULLET, SP>>
    ELSE <<>>

\* The characters of content the events of h carry: text, code, and the
\* titles of the links and images they open.
RECURSIVE ContentLen(_)
ContentLen(h) ==
    IF h = <<>> THEN 0
    ELSE LET e == Head(h)
             n == IF e.kind \in {"Text", "Code"} THEN Len(e.content)
                  ELSE IF e.kind = "Start" /\ e.tag.name \in {"Link", "Image"}
                      THEN Len(e.tag.title)
                  ELSE 0
         IN  n + ContentLen(Tail(h))

\* A tag with no rendering rule.
Transparent(tag) == tag \in {Emphasis, Strong, BlockQuote}

\* h without its events i and j.
Without(h, i, j) ==
    SubSeq(h, 1, i - 1) \o SubSeq(h, i + 1, j - 1) \o SubSeq(h, j + 1, Len(h))

\* The event the pass has just handled.
LastEvent == consumed[Len(consumed)]

\* The step handles `event`.
Handles(event) == consumed' = Append(consumed, event)

\* ------------------------------------------------------------------ claims

\* C1: a Text(s) event appends nothing when any element of the tag stack, at
\* any depth, is Strikethrough, and appends exactly s when none is; so in a
\* well-formed stream the Text between a Start(Strikethrough) and its End is
\* never appended, however deep it is nested, and Text after the End is.
C1_StruckTextSuppressed ==
    [][\A s \in Contents :
        Handles(Text(s)) =>
            /\ buffer' =
                IF \E i \in DOMAIN tags_stack : tags_stack[i] = Strikethrough
                    THEN buffer
                ELSE buffer \o s
            /\ WellFormed(consumed) =>
                buffer' = IF StruckIn(consumed) THEN buffer ELSE buffer \o s
      ]_vars

\* A Text event handled while Strikethrough is open below another open tag:
\* nothing was appended.
C1_Witness ==
    /\ Len(consumed) >= 3
    /\ LastEvent.kind = "Text"
    /\ WellFormed(consumed)
    /\ StruckIn(consumed)
    /\ tags_stack[Len(tags_stack)] # Strikethrough
    /\ lens[Len(lens)] = lens[Len(lens) - 1]

Appended(i) == SubSeq(buffer, lens[i] + 1, lens[i + 1])

\* C4: End(t) appends exactly two newlines when t is Paragraph, Table,
\* Heading or List, exactly one when t is CodeBlock, TableHead, TableRow or
\* Item, and nothing otherwise; the returned string keeps every separator
\* that lies between two characters that are not whitespace, and loses only
\* what lies before the first or after the last of them.
C4_EndSeparators ==
    /\ \A j \in 1..Len(consumed) :
        consumed[j].kind = "End" =>
            /\ lens[j] <= lens[j + 1]
            /\ lens[j + 1] <= Len(buffer)
            /\ Appended(j) = EndRule(consumed[j].tag)
    /\ pc = "done" =>
        \A p, q \in 1..Len(buffer) :
            (p <= q /\ ~is_whitespace(buffer[p]) /\ ~is_whitespace(buffer[q]))
                => \E a \in 1..Len(result) :
                    /\ a + (q - p) <= Len(result)
                    /\ SubSeq(result, a, a + (q - p)) = SubSeq(buffer, p, q)

\* A blank-line separator between two pieces of content, in the result.
C4_Witness ==
    /\ pc = "done"
    /\ \E j \in 1..Len(consumed) :
        /\ consumed[j].kind = "End"
        /\ Appended(j) = <<NL, NL>>
        /\ \E p \in 1..lens[j] : ~is_whitespace(buffer[p])
        /\ \E q \in (lens[j + 1] + 1)..Len(buffer) : ~is_whitespace(buffer[q])
    /\ \E a \in 2..Len(result) : SubSeq(result, a, a + 1) = <<NL, NL>>

\* C5: every Item span is rendered with a bullet and one space, appended at
\* Start(Item) before the item's content, and one newline, appended at
\* End(Item) after it, in ordered and unordered lists and at any depth.
C5_ItemBullet ==
    /\ \A i \in 1..Len(consumed) :
        /\ consumed[i] = Start(Item) =>
            /\ lens[i + 1] = lens[i] + 2
            /\ lens[i + 1] <= Len(buffer)
            /\ Appended(i) = <<BULLET, SP>>
        /\ consumed[i] = End(Item) =>
            /\ lens[i + 1] = lens[i] + 1
            /\ lens[i + 1] <= Len(buffer)
            /\ Appended(i) = <<NL>>
    /\ \A i, j \in 1..Len(consumed) :
        (Matches(consumed, i, j) /\ consumed[i] = Start(Item)
            /\ consumed[j] = End(Item)) =>
                /\ lens[i + 1] <= lens[j]
                /\ SubSeq(buffer, lens[i] + 1, lens[i] + 2) = <<BULLET, SP>>
                /\ buffer[lens[j + 1]] = NL

\* An item with content, inside an ordered list, has been rendered.
C5_Witness ==
    /\ Len(consumed) = 4
    /\ consumed[1] = Start(List(TRUE))
    /\ Matches(consumed, 2, 4)
    /\ consumed[2] = Start(Item)
    /\ consumed[4] = End(Item)
    /\ buffer = <<BULLET, SP, "a", NL>>

\* The contents of the events h[i..j], which are Text events.
RECURSIVE TextOf(_, _, _)
TextOf(h, i, j) ==
    IF i > j THEN <<>> ELSE h[i].content \o TextOf(h, i + 1, j)

C7_SoftBreakSpace ==
    [][Handles(SoftBreak) => buffer' = buffer \o <<" ">>]_vars

\* A SoftBreak handled inside an open Strikethrough: the buffer is one space.
C7_Witness ==
    /\ consumed # <<>>
    /\ LastEvent = SoftBreak
    /\ \E i \in DOMAIN tags_stack : tags_stack[i] = Strikethrough
    /\ buffer = <<SP>>

\* C8: the returned string is the buffer without its leading and trailing
\* whitespace and with nothing else changed: it neither starts nor ends with
\* whitespace, it is the stretch of the buffer from its first character that
\* is not whitespace to its last, and it is empty when no event was handled
\* or every character of the buffer is whitespace.
C8_FinalTrim ==
    pc = "done" =>
        /\ result = Stripped(buffer)
        /\ result # <<>> =>
            ~is_whitespace(result[1]) /\ ~is_whitespace(result[Len(result)])
        /\ (consumed = <<>> \/ \A i \in 1..Len(buffer) : is_whitespace(buffer[i]))
            => result = <<>>
        /\ \E a \in 0..Len(buffer) :
            /\ a + Len(result) <= Len(buffer)
            /\ \A k \in 1..Len(result) : result[k] = buffer[a + k]
            /\ \A k \in 1..Len(buffer) :
                (k <= a \/ k > a + Len(result)) => is_whitespace(buffer[k])

\* A buffer with whitespace at both ends and content between has been
\* trimmed.
C8_Witness ==
    /\ pc = "done"
    /\ Len(buffer) >= 3
    /\ is_whitespace(buffer[1])
    /\ is_whitespace(buffer[Len(buffer)])
    /\ Len(result) >= 1
    /\ Len(result) < Len(buffer)

\* C9: an End event handled while the tag stack is empty does not fault:
\* the stack stays empty, the end rule of the event's tag is applied to the
\* buffer, the loop goes on, and the pass returns a result.
C9_UnderflowTolerated ==
    /\ [][\A t \in Tags :
            (Handles(End(t)) /\ tags_stack = <<>>) =>
                /\ tags_stack' = <<>>
                /\ buffer' = buffer \o EndRule(t)
                /\ pc' = "loop"
         ]_vars
    /\ (\E j \in 1..Len(consumed) : Underflows(consumed, j)) ~> (pc = "done")

\* A stream that begins with an unmatched End of a block has been rendered:
\* the two newlines were appended, later events were handled, a result was
\* returned.
C9_Witness ==
    /\ pc = "done"
    /\ Len(consumed) >= 3
    /\ Underflows(consumed, 1)
    /\ Appended(1) = <<NL, NL>>
    /\ consumed[2].kind = "Text"
    /\ result # <<>>

\* C10: on a well-formed stream, after any prefix, the tag stack is the
\* sequence of the tags opened and not yet closed, outermost first: its depth
\* is the number of Start events minus the number of End events and its top
\* is the innermost open tag.
C10_StackMirrorsNesting ==
    WellFormed(consumed) =>
        /\ Len(tags_stack) = Cardinality(OpenIdx(consumed))
        /\ Len(tags_stack) + EndsIn(consumed, 1, Len(consumed))
                = StartsIn(consumed, 1, Len(consumed))
        /\ \A i \in 1..Len(tags_stack) :
                tags_stack[i] = OpenTag(consumed, i)
        /\ tags_stack # <<>> =>
            \E k \in OpenIdx(consumed) :
                /\ \A m \in OpenIdx(consumed) : m <= k
                /\ tags_stack[Len(tags_stack)] = consumed[k].tag

\* Two different tags are open, after an inner span was opened and closed.
C10_Witness ==
    /\ WellFormed(consumed)
    /\ Len(tags_stack) = 2
    /\ tags_stack[1] # tags_stack[2]
    /\ EndsIn(consumed, 1, Len(consumed)) >= 1

\* C11: the Start and End of a tag with no rendering rule (emphasis, strong,
\* block quote) append nothing, so a run of events wrapped in such a span, at
\* any depth, gives the buffer and the output of the run without the span.
C11_TransparentTags ==
    /\ \A i \in 1..Len(consumed) :
        (consumed[i].kind \in {"Start", "End"}
            /\ Transparent(consumed[i].tag)) => lens[i + 1] = lens[i]
    /\ \A i, j \in 1..Len(consumed) :
        (/\ Matches(consumed, i, j)
         /\ Transparent(consumed[i].tag)
         /\ consumed[j].tag = consumed[i].tag) =>
            /\ buffer = pass(Without(consumed, i, j)).buffer
            /\ pc = "done" =>
                result = strip_markdown(Without(consumed, i, j))

\* A run with content, wrapped in a block quote inside another open span,
\* has been rendered.
C11_Witness ==
    /\ pc = "done"
    /\ Len(consumed) = 4
    /\ consumed[1].kind = "Start"
    /\ consumed[2] = Start(BlockQuote)
    /\ consumed[3].kind = "Code"
    /\ Matches(consumed, 2, 4)
    /\ consumed[4] = End(BlockQuote)
    /\ result # <<>>

\* C12: when two calls run on independent inputs with their steps
\* interleaved in any order, each starts from an empty stack and buffer, no
\* step of one call changes the stack, buffer or result of the other, and
\* each holds and returns what it does when it runs alone.
C12_IndependentCalls ==
    /\ [][/\ call2' # call2 => UNCHANGED Call1Locals
          /\ (~UNCHANGED Call1Locals) => call2' = call2
         ]_vars
    /\ [](/\ tags_stack = pass(consumed).tags_stack
          /\ buffer = pass(consumed).buffer
          /\ pc = "done" => result = strip_markdown(consumed)
          /\ call2.tags_stack = pass(call2.consumed).tags_stack
          /\ call2.buffer = pass(call2.consumed).buffer
          /\ call2.pc = "done" => call2.result = strip_markdown(call2.consumed))

\* Both calls have returned, on different inputs, with different outputs.
C12_Witness ==
    /\ pc = "done"
    /\ call2.pc = "done"
    /\ Len(consumed) = 2
    /\ Len(call2.consumed) = 2
    /\ consumed # call2.consumed
    /\ result # <<>>
    /\ call2.result # <<>>
    /\ result # call2.result

\* C13: for every finite event sequence, well-formed or not, the pass
\* handles each event exactly once, in order, and then returns a string: it
\* reaches "done", with the output of the events it was given, and has no
\* other outcome; when the sequence is well-formed and whole, the tag stack
\* is empty at the return.
C13_Terminates ==
    /\ <>(pc = "done")
    /\ [][/\ pc = "loop"
          /\ pc' \in {"loop", "done"}
          /\ pc' = "loop" =>
                /\ Len(consumed') = Len(consumed) + 1
                /\ SubSeq(consumed', 1, Len(consumed)) = consumed
                /\ <<tags_stack', buffer'>> =
                    <<handle([tags_stack |-> tags_stack, buffer |-> buffer],
                             consumed'[Len(consumed')]).tags_stack,
                      handle([tags_stack |-> tags_stack, buffer |-> buffer],
                             consumed'[Len(consumed')]).buffer>>
          /\ pc' = "done" => consumed' = consumed
         ]_vars
    /\ [](pc = "done" =>
            /\ result = strip_markdown(consumed)
            /\ (WellFormed(consumed) /\ OpenIdx(consumed) = {}) =>
                    tags_stack = <<>>)

\* A whole well-formed stream with a nested span has been handled to the
\* return.
C13_Witness ==
    /\ pc = "done"
    /\ Len(consumed) = 4
    /\ WellFormed(consumed)
    /\ OpenIdx(consumed) = {}
    /\ Matches(consumed, 1, 4)
    /\ Matches(consumed, 2, 3)
    /\ tags_stack = <<>>

\* C14: at every point of the pass the stack depth is at most the number of
\* Start events handled, and the buffer's length in characters is at most
\* the content the handled events carry (text, code, link and image titles)
\* plus two characters for each handled event.
C14_BoundedByInput ==
    /\ Len(tags_stack) <= StartsIn(consumed, 1, Len(consumed))
    /\ Len(buffer) <= ContentLen(consumed) + 2 * Len(consumed)
    /\ \A i \in 1..Len(consumed) :
        lens[i + 1] <= ContentLen(SubSeq(consumed, 1, i)) + 2 * i

\* Both bounds are met: every handled event opened a tag and appended two
\* characters.
C14_Witness ==
    /\ Len(consumed) >= 2
    /\ Len(tags_stack) = Len(consumed)
    /\ Len(buffer) = ContentLen(consumed) + 2 * Len(consumed)

\* C15: the buffer is append-only during the pass: the buffer before an
\* event is a prefix of the buffer after it, what the event appends is set
\* by the event and the stack alone, and characters are removed only by the
\* one trim at the return, which leaves the buffer itself as it is.
C15_AppendOnly ==
    [][/\ Len(buffer) <= Len(buffer')
       /\ SubSeq(buffer', 1, Len(buffer)) = buffer
       /\ \A e \in Events(Tags) :
            Handles(e) =>
                buffer' = buffer \o handle([tags_stack |-> tags_stack,
                                            buffer |-> <<>>], e).buffer
       /\ pc' = "done" =>
            /\ buffer' = buffer
            /\ consumed' = consumed
            /\ result' = Stripped(buffer)
      ]_vars

\* An End event has appended its separator after whitespace that was
\* already in the buffer, and the whitespace is still there.
C15_Witness ==
    /\ Len(consumed) >= 2
    /\ LastEvent.kind = "End"
    /\ lens[Len(consumed)] >= 1
    /\ lens[Len(consumed) + 1] > lens[Len(consumed)]
    /\ is_whitespace(buffer[lens[Len(consumed)]])

\* C16: only Start and End events change the tag stack: Text, Code,
\* SoftBreak and Other events leave it as it is, and an Other event leaves
\* the buffer as it is too.
C16_Frame ==
    [][/\ \A e \in Events(Tags) :
            (Handles(e) /\ e.kind \in {"Text", "Code", "SoftBreak", "Other"})
                => tags_stack' = tags_stack
       /\ Handles(Other) => (tags_stack' = tags_stack /\ buffer' = buffer)
       /\ tags_stack' # tags_stack =>
            \E t \in Tags : Handles(Start(t)) \/ Handles(End(t))
      ]_vars

\* An Other event handled with a tag open and text in the buffer.
C16_Witness ==
    /\ consumed # <<>>
    /\ LastEvent = Other
    /\ tags_stack # <<>>
    /\ buffer # <<>>
    /\ lens[Len(lens)] = lens[Len(lens) - 1]

\* C17: End(t) removes the last element of the tag stack whatever t is, and
\* applies the end rule of t, not of the removed element; so in a stream
\* that is not well-formed the End of another tag removes an open
\* Strikethrough and Text is appended again.
C17_EndPopsAnyTag ==
    [][\A t \in Tags :
        Handles(End(t)) =>
            /\ tags_stack' = SubSeq(tags_stack, 1, Len(tags_stack) - 1)
            /\ buffer' = buffer \o EndRule(t)
      ]_vars

\* Start(Strikethrough), the End of another tag, then a Text event: the
\* text is in the buffer.
C17_Witness ==
    /\ Len(consumed) = 3
    /\ consumed[1] = Start(Strikethrough)
    /\ consumed[2].kind = "End"
    /\ consumed[2].tag # Strikethrough
    /\ consumed[3].kind = "Text"
    /\ tags_stack = <<>>
    /\ Appended(3) = consumed[3].content

\* C18: Strikethrough suppresses Text events only: with a Strikethrough on
\* the stack, as without one, a Start event appends its start rule (title,
\* or bullet and space), an End event its end rule (one or two newlines) and
\* a SoftBreak one space.
C18_OnlyTextSuppressed ==
    [][/\ \A t \in Tags :
            /\ Handles(Start(t)) => buffer' = buffer \o StartRule(t)
            /\ Handles(End(t)) => buffer' = buffer \o EndRule(t)
       /\ Handles(SoftBreak) => buffer' = buffer \o <<SP>>
      ]_vars

\* Inside an open Strikethrough a title, a soft break's space and an end
\* rule's newline were appended.
C18_Witness ==
    /\ Len(consumed) = 4
    /\ consumed[1] = Start(Strikethrough)
    /\ consumed[2] = Start(Link(<<"t">>))
    /\ consumed[3] = SoftBreak
    /\ consumed[4].kind = "End"
    /\ \E i \in DOMAIN tags_stack : tags_stack[i] = Strikethrough
    /\ buffer = <<"t", SP>>

====
